---- MODULE Spec2Model ----
(***************************************************************************)
(* Model of Bisection.py: the bisection solver bisection_method, the       *)
(* polynomial evaluator evaluate_poly and the part of main that calls the  *)
(* solver and prints the convergence status.                               *)
(*                                                                         *)
(* Numbers.  The program computes in IEEE-754 doubles.  The inputs drawn   *)
(* here are small integers (coefficients, bounds) and small dyadic         *)
(* tolerances, and a run performs at most MaxIter halvings, so every       *)
(* value the program computes is a dyadic rational with few bits and the   *)
(* double arithmetic is exact.  The model therefore computes exactly, in   *)
(* fixed point:                                                            *)
(*   - a point (a, b, c, prev_c, error, tol) is an integer counting units  *)
(*     of 1/Scale, Scale a power of 2;                                     *)
(*   - a value of the polynomial (fa, fb, fc) is an integer counting units *)
(*     of 1/FDen(coeffs), FDen = Scale^degree.                             *)
(***************************************************************************)
EXTENDS Integers, Sequences, FiniteSets, TLC

\* ---------------------------------------------------------------- bounds
MaxDeg == 2
MaxCoef == 2
MaxPoint == 2
MaxIter == 2
MaxTolExp == 3

\* ------------------------------------------------------------ arithmetic
RECURSIVE Pow(_, _)
Pow(base, e) == IF e = 0 THEN 1 ELSE base * Pow(base, e - 1)

\* enough binary places for MaxIter halvings of an integer interval and
\* for the smallest tolerance
Scale == Pow(2, IF MaxIter > MaxTolExp THEN MaxIter ELSE MaxTolExp)

Abs(x) == IF x < 0 THEN -x ELSE x

Sign(x) == IF x < 0 THEN -1 ELSE IF x > 0 THEN 1 ELSE 0

\* the sign of the product x * y (the code only ever compares a product
\* of two polynomial values with 0)
Product(x, y) == Sign(x) * Sign(y)

\* denominator of the polynomial values of coeffs
FDen(coefficients) == Pow(Scale, Len(coefficients) - 1)

\* np.polyval: y = 0; for p in coefficients: y = y * x + p  (Horner).
\* x is in units of 1/Scale; after k coefficients y is in units of
\* 1/Scale^(k-1), so the result is in units of 1/FDen(coefficients).
evaluate_poly(coefficients, x) ==
    LET H[k \in 0..Len(coefficients)] ==
            IF k = 0 THEN 0
            ELSE H[k - 1] * x + coefficients[k] * Pow(Scale, k - 1)
    IN  H[Len(coefficients)]

\* abs(fv) < tol, fv a polynomial value of coeffs and tol a point quantity
AbsValueBelow(fv, tolerance, coefficients) ==
    Abs(fv) * Scale < tolerance * FDen(coefficients)

\* ---------------------------------------------------------------- inputs
\* A polynomial of degree n, n <= MaxDeg, with a positive leading
\* coefficient: f and -f make the solver take the same steps (it only
\* uses |f(c)| and the sign of a product of two values of f), so the
\* polynomials with a negative leading coefficient add no behaviour.
CoefVals == (-MaxCoef)..MaxCoef
Polys == UNION {{p \in [1..n -> CoefVals] : p[1] > 0} : n \in 1..(MaxDeg + 1)}
\* the bounds a and b, in either order (main does not order them)
PointVals == {p * Scale : p \in 0..MaxPoint}
TolTop == 3 * Scale
TolVals == {0} \cup {TolTop \div Pow(2, k) : k \in 0..MaxTolExp}
IterVals == 0..MaxIter

\* ----------------------------------------------------------------- state
VARIABLES
    coeffs, main_a, main_b, tol, max_iter,   \* main's inputs (lines 82-90)
    a, b,                                    \* the solver's endpoints
    fa, fb,                                  \* values of the precondition check
    c, prev_c, fc, error, i,                 \* loop locals
    log,                                     \* the table rows printed at line 39
    result,                                  \* what bisection_method returned
    status,                                  \* main's Convergence Status line
    pc

vars == <<coeffs, main_a, main_b, tol, max_iter, a, b, fa, fb,
          c, prev_c, fc, error, i, log, result, status, pc>>

NoReturn == [kind |-> "unset", root |-> 0, iters |-> 0]
None == [kind |-> "none", root |-> 0, iters |-> 0]
Pair(root, iters) == [kind |-> "pair", root |-> root, iters |-> iters]

\* the state when main calls bisection_method(coeffs, a, b, tol, max_iter)
Init ==
    /\ coeffs \in Polys
    /\ main_a \in PointVals
    /\ main_b \in PointVals
    /\ tol \in TolVals
    /\ max_iter \in IterVals
    /\ a = main_a
    /\ b = main_b
    /\ fa = 0 /\ fb = 0
    /\ c = 0 /\ prev_c = 0 /\ fc = 0 /\ error = 0 /\ i = 0
    /\ log = <<>>
    /\ result = NoReturn
    /\ status = ""
    /\ pc = "check"

\* ------------------------------------------------- the code's conditions
\* line 19: if fa * fb >= 0
BracketFails_strict(va, vb) == Product(va, vb) > 0
BracketFails(va, vb) == Product(va, vb) >= 0

\* line 30: for i in range(1, max_iter + 1), i the last index taken
LoopContinues_short(k, limit) == k + 1 < limit
LoopContinues_long(k, limit) == k <= limit
LoopContinues(k, limit) == k < limit

\* line 32: c = (a + b) / 2
Midpoint_diff(lo, hi) == (hi - lo) \div 2
Midpoint(lo, hi) == (lo + hi) \div 2

\* line 36: error = abs(c - prev_c) if i > 1 else abs(b - a)
ErrorOf_width(k, mid, prev, lo, hi) == Abs(hi - lo)
ErrorOf(k, mid, prev, lo, hi) ==
    IF k > 1 THEN Abs(mid - prev) ELSE Abs(hi - lo)

\* line 43: if abs(fc) < tol or (error < tol and i > 1)
Converged_first(fv, err, k, tolerance, coefficients) ==
    \/ AbsValueBelow(fv, tolerance, coefficients)
    \/ err < tolerance
Converged_erroronly(fv, err, k, tolerance, coefficients) ==
    err < tolerance /\ k > 1
Converged(fv, err, k, tolerance, coefficients) ==
    \/ AbsValueBelow(fv, tolerance, coefficients)
    \/ (err < tolerance /\ k > 1)

\* lines 47-50: if evaluate_poly(coeffs, a) * fc < 0: b = c  else: a = c
Narrowed_swapped(lo, hi, mid, vlo, vmid) ==
    IF Product(vlo, vmid) < 0 THEN <<mid, hi>> ELSE <<lo, mid>>
Narrowed_nonstrict(lo, hi, mid, vlo, vmid) ==
    IF Product(vlo, vmid) <= 0 THEN <<lo, mid>> ELSE <<mid, hi>>
Narrowed(lo, hi, mid, vlo, vmid) ==
    IF Product(vlo, vmid) < 0 THEN <<lo, mid>> ELSE <<mid, hi>>

\* line 98: 'Success' if iters < max_iter else 'Max Iterations Reached'
StatusOf(iters, limit) ==
    IF iters < limit THEN "Success" ELSE "Max Iterations Reached"

\* --------------------------------------------------------------- actions
\* lines 15-28: the precondition check
Check ==
    /\ pc = "check"
    /\ fa' = evaluate_poly(coeffs, a)
    /\ fb' = evaluate_poly(coeffs, b)
    /\ IF BracketFails(fa', fb')
       THEN /\ result' = None
            /\ pc' = "returned"
            /\ c' = c
       ELSE /\ result' = result
            /\ c' = a
            /\ pc' = "loop"
    /\ UNCHANGED <<coeffs, main_a, main_b, tol, max_iter, a, b,
                   prev_c, fc, error, i, log, status>>

\* lines 30-44: one pass of the loop up to the convergence test
Iterate ==
    /\ pc = "loop"
    /\ LoopContinues(i, max_iter)
    /\ i' = i + 1
    /\ prev_c' = c
    /\ c' = Midpoint(a, b)
    /\ fc' = evaluate_poly(coeffs, c')
    /\ error' = ErrorOf(i', c', prev_c', a, b)
    /\ log' = Append(log, [i |-> i', a |-> a, b |-> b, c |-> c',
                           fc |-> fc', error |-> error'])
    /\ IF Converged(fc', error', i', tol, coeffs)
       THEN /\ result' = Pair(c', i')
            /\ pc' = "returned"
       ELSE /\ result' = result
            /\ pc' = "narrow"
    /\ UNCHANGED <<coeffs, main_a, main_b, tol, max_iter, a, b, fa, fb, status>>

\* lines 46-50: narrow the interval, f(a) evaluated at the current a
Narrow ==
    /\ pc = "narrow"
    /\ LET ab == Narrowed(a, b, c, evaluate_poly(coeffs, a), fc)
       IN  /\ a' = ab[1]
           /\ b' = ab[2]
    /\ pc' = "loop"
    /\ UNCHANGED <<coeffs, main_a, main_b, tol, max_iter, fa, fb,
                   c, prev_c, fc, error, i, log, result, status>>

\* line 52: the loop ran out
Exhaust ==
    /\ pc = "loop"
    /\ ~LoopContinues(i, max_iter)
    /\ result' = Pair(c, max_iter)
    /\ pc' = "returned"
    /\ UNCHANGED <<coeffs, main_a, main_b, tol, max_iter, a, b, fa, fb,
                   c, prev_c, fc, error, i, log, status>>

\* lines 96-100: main reports a root
Report ==
    /\ pc = "returned"
    /\ result.kind = "pair"
    /\ status' = StatusOf(result.iters, max_iter)
    /\ pc' = "done"
    /\ UNCHANGED <<coeffs, main_a, main_b, tol, max_iter, a, b, fa, fb,
                   c, prev_c, fc, error, i, log, result>>

\* line 96: root is None, main prints nothing more
NoReport ==
    /\ pc = "returned"
    /\ result.kind = "none"
    /\ pc' = "done"
    /\ UNCHANGED <<coeffs, main_a, main_b, tol, max_iter, a, b, fa, fb,
                   c, prev_c, fc, error, i, log, result, status>>

Next == Check \/ Iterate \/ Narrow \/ Exhaust \/ Report \/ NoReport

Spec == Init /\ [][Next]_vars

\* the program is sequential: every enabled step is eventually taken
FairSpec == Spec /\ WF_vars(Next)

\* ------------------------------------------------ vocabulary of the claims
\* f(main_a) and f(main_b) have strictly opposite signs
BracketOK ==
    Sign(evaluate_poly(coeffs, main_a)) * Sign(evaluate_poly(coeffs, main_b)) < 0

Returned == pc \in {"returned", "done"}

\* the convergence test of the specification, on a printed row r
RowConverged(r) ==
    \/ Abs(r.fc) * Scale < tol * FDen(coeffs)
    \/ (r.error < tol /\ r.i > 1)

SomeRowConverged == \E k \in 1..Len(log) : RowConverged(log[k])

LastRow == log[Len(log)]

\* ---------------------------------------------------------------------
\* C1: whenever f(a) * f(b) >= 0 for the bounds handed to the solver, a
\* zero endpoint value included, the solver returns (None, None) without
\* iterating: no midpoint is computed, no row is printed, and a and b keep
\* their values.
C1_NoResultWithoutIterating ==
    (pc # "check" /\ ~BracketOK)
        => /\ result = None
           /\ i = 0
           /\ log = <<>>
           /\ c = 0 /\ prev_c = 0
           /\ a = main_a /\ b = main_b

\* a run rejected because f(a) is exactly 0 while f(b) is not
C1_Witness ==
    /\ pc = "done"
    /\ result = None
    /\ evaluate_poly(coeffs, main_a) = 0
    /\ evaluate_poly(coeffs, main_b) # 0

\* ---------------------------------------------------------------------
\* C2: with a strict sign change, tol > 0 and max_iter > 0 the solver
\* terminates, performs at most max_iter iterations and returns an
\* iteration count in 1..max_iter.
C2_Pre == BracketOK /\ tol > 0 /\ max_iter > 0

C2_TerminatesWithinMaxIter ==
    /\ [](C2_Pre => /\ i <= max_iter
                    /\ Len(log) <= max_iter
                    /\ (Returned => /\ result.kind = "pair"
                                    /\ result.iters \in 1..max_iter))
    /\ (C2_Pre ~> (pc = "done" /\ result.kind = "pair"))

\* a run that used all of its (at least two) iterations
C2_Witness ==
    /\ pc = "done"
    /\ C2_Pre
    /\ max_iter >= 2
    /\ Len(log) = max_iter
    /\ result.iters = max_iter

\* ---------------------------------------------------------------------
\* C3 as stated: the returned c has |f(c)| < tol, or the interval whose
\* midpoint is c is narrower than tol.
C3_Pre == BracketOK /\ tol > 0 /\ max_iter > 0

C3_Original ==
    (Returned /\ C3_Pre)
        => \/ Abs(evaluate_poly(coeffs, result.root)) * Scale < tol * FDen(coeffs)
           \/ Abs(LastRow.b - LastRow.a) < tol

\* C3 amended: the returned c has |f(c)| < tol, or it was returned on an
\* iteration after the first with |c - previous c| < tol (half the width
\* of the interval whose midpoint is c), or the iteration count returned
\* is max_iter.
C3_Amended ==
    (Returned /\ C3_Pre)
        => \/ Abs(evaluate_poly(coeffs, result.root)) * Scale < tol * FDen(coeffs)
           \/ /\ result.iters > 1
              /\ result.root = LastRow.c
              /\ Abs(LastRow.c - log[Len(log) - 1].c) < tol
              /\ Abs(LastRow.b - LastRow.a) < 2 * tol
           \/ result.iters = max_iter

\* a run returned by the error test while the interval is still at least
\* tol wide and |f(c)| >= tol
C3_Witness ==
    /\ pc = "done"
    /\ C3_Pre
    /\ result.iters > 1
    /\ RowConverged(LastRow)
    /\ ~(Abs(evaluate_poly(coeffs, result.root)) * Scale < tol * FDen(coeffs))
    /\ Abs(LastRow.b - LastRow.a) >= tol

\* ---------------------------------------------------------------------
\* C4: when the bracketing check passes, every printed row i holds the
\* midpoint c_i = (a + b) / 2 of its interval, f(c_i), and the error
\* |b - a| (i = 1) or |c_i - c_(i-1)| (i > 1); no row before the last one
\* satisfies the convergence test, and as soon as a row satisfies it the
\* solver has returned (c_i, i) with a and b as that row found them.  The
\* error test does not count on row 1.
C4_RowsWellFormed ==
    \A k \in 1..Len(log) :
        /\ log[k].i = k
        /\ 2 * log[k].c = log[k].a + log[k].b
        /\ log[k].fc = evaluate_poly(coeffs, log[k].c)
        /\ log[k].error = IF k = 1 THEN Abs(log[k].b - log[k].a)
                          ELSE Abs(log[k].c - log[k - 1].c)

C4_ReturnsAtFirstConvergedIteration ==
    (BracketOK /\ pc # "check")
        => /\ Len(log) = i
           /\ C4_RowsWellFormed
           /\ \A k \in 1..(Len(log) - 1) : ~RowConverged(log[k])
           /\ (Len(log) >= 1 /\ RowConverged(LastRow))
                 => /\ Returned
                    /\ result = Pair(LastRow.c, Len(log))
                    /\ a = LastRow.a /\ b = LastRow.b
           /\ (Len(log) >= 1 /\ ~RowConverged(LastRow) /\ Returned)
                 => /\ Len(log) = max_iter
                    /\ result.iters = max_iter
           /\ (Len(log) >= 1 /\ ~RowConverged(LastRow) /\ ~Returned)
                 => pc \in {"narrow", "loop"}

\* a run whose first row has |b - a| < tol and |f(c)| >= tol, and which
\* went on to return on its second iteration
C4_Witness ==
    /\ pc = "done"
    /\ BracketOK
    /\ Len(log) = 2
    /\ log[1].error < tol
    /\ ~RowConverged(log[1])
    /\ result = Pair(log[2].c, 2)
    /\ RowConverged(log[2])

\* ---------------------------------------------------------------------
\* C5: when the bracketing check passes, max_iter >= 1 and no iteration
\* satisfies the convergence test, the solver performs exactly max_iter
\* iterations and returns (c, max_iter), c the midpoint computed on
\* iteration max_iter.
C5_ExhaustionReturnsLastMidpoint ==
    (BracketOK /\ max_iter >= 1 /\ Returned /\ ~SomeRowConverged)
        => /\ Len(log) = max_iter
           /\ i = max_iter
           /\ result = Pair(log[max_iter].c, max_iter)
           /\ 2 * result.root = log[max_iter].a + log[max_iter].b

\* an exhausted run of at least two iterations, whose interval was
\* narrowed once more after the midpoint it returns
C5_Witness ==
    /\ pc = "done"
    /\ BracketOK
    /\ max_iter >= 2
    /\ ~SomeRowConverged
    /\ result.iters = max_iter
    /\ <<a, b>> # <<LastRow.a, LastRow.b>>

\* ---------------------------------------------------------------------
\* C6: a narrowing step assigns exactly one endpoint: b becomes c and a
\* stays when f(a) * f(c) < 0 for the current a, otherwise (product zero
\* included) a becomes c and b stays.  No step modifies coeffs, tol or
\* max_iter.
C6_NarrowingAssignsOneEndpoint ==
    [][ /\ pc = "narrow"
            => IF Sign(evaluate_poly(coeffs, a)) * Sign(fc) < 0
               THEN b' = c /\ a' = a
               ELSE a' = c /\ b' = b
        /\ pc # "narrow" => (a' = a /\ b' = b)
        /\ coeffs' = coeffs /\ tol' = tol /\ max_iter' = max_iter ]_vars

\* the state after a narrowing step taken with f(a) * f(c) = 0
C6_Witness ==
    /\ pc = "loop"
    /\ i >= 1
    /\ fc = 0
    /\ a = c
    /\ b = LastRow.b
    /\ a # LastRow.a

\* ---------------------------------------------------------------------
\* C7: when the bracketing check passes and tol > 0, f(a) * f(b) < 0 holds
\* at the start of every iteration and after every narrowing step, as long
\* as the solver has not returned.
C7_BracketingInvariant ==
    (BracketOK /\ tol > 0 /\ pc \in {"loop", "narrow"})
        => Sign(evaluate_poly(coeffs, a)) * Sign(evaluate_poly(coeffs, b)) < 0

\* both endpoints have been moved and the solver is still iterating
C7_Witness ==
    /\ pc = "loop"
    /\ tol > 0
    /\ i >= 2
    /\ a # main_a
    /\ b # main_b

\* ---------------------------------------------------------------------
\* C8: when the bracketing check passes and tol > 0, at every narrowing
\* step f(a) recomputed at the current a has the sign of the fa of the
\* precondition check, the test with the cached fa takes the same branch,
\* and the solver that uses the cached fa returns the same (c, iterations).
RECURSIVE CachedSolve(_, _, _, _)
CachedSolve(k, lo, hi, mid) ==
    IF ~LoopContinues(k, max_iter) THEN Pair(mid, max_iter)
    ELSE LET m == Midpoint(lo, hi)
             fm == evaluate_poly(coeffs, m)
             e == ErrorOf(k + 1, m, mid, lo, hi)
         IN  IF Converged(fm, e, k + 1, tol, coeffs) THEN Pair(m, k + 1)
             ELSE LET ab == Narrowed(lo, hi, m, fa, fm)
                  IN  CachedSolve(k + 1, ab[1], ab[2], m)

C8_CachedFaEquivalent ==
    (BracketOK /\ tol > 0)
        => /\ pc = "narrow"
                => /\ Sign(evaluate_poly(coeffs, a)) = Sign(fa)
                   /\ (Sign(evaluate_poly(coeffs, a)) * Sign(fc) < 0)
                          <=> (Sign(fa) * Sign(fc) < 0)
           /\ Returned => result = CachedSolve(0, main_a, main_b, main_a)

\* a narrowing step about to be taken after a has been reassigned
C8_Witness ==
    /\ pc = "narrow"
    /\ tol > 0
    /\ a # main_a
    /\ evaluate_poly(coeffs, a) # fa

\* ---------------------------------------------------------------------
\* C9 as stated (a0 < b0, bracketing check passed): a0 <= a < b <= b0, the
\* interval of row k has width (b0 - a0) / 2^(k-1), every midpoint and the
\* returned root lie strictly inside (a0, b0), and the error of row
\* k >= 2 is (b0 - a0) / 2^k.
C9_Intervals ==
    /\ main_a <= a /\ a < b /\ b <= main_b
    /\ pc = "loop" => (b - a) * Pow(2, i) = main_b - main_a
    /\ \A k \in 1..Len(log) :
          /\ (log[k].b - log[k].a) * Pow(2, k - 1) = main_b - main_a
          /\ main_a < log[k].c /\ log[k].c < main_b
          /\ k >= 2 => log[k].error * Pow(2, k) = main_b - main_a

C9_Original ==
    (BracketOK /\ main_a < main_b /\ pc # "check")
        => /\ C9_Intervals
           /\ Returned => (main_a < result.root /\ result.root < main_b)

\* C9 amended: the same, the returned root being strictly inside (a0, b0)
\* when max_iter >= 1 (with max_iter <= 0 the solver returns a0 itself).
C9_Amended ==
    (BracketOK /\ main_a < main_b /\ pc # "check")
        => /\ C9_Intervals
           /\ (Returned /\ max_iter >= 1)
                 => (main_a < result.root /\ result.root < main_b)
           /\ (Returned /\ max_iter < 1) => result.root = main_a

\* a run of at least two iterations on an interval given in increasing
\* order, in which both endpoints moved
C9_Witness ==
    /\ pc = "done"
    /\ main_a < main_b
    /\ result.kind = "pair"
    /\ result.iters >= 2
    /\ a # main_a /\ b # main_b

\* ---------------------------------------------------------------------
\* C10: for every run that returns a root, the status is 'Success' exactly
\* when some iteration satisfied the convergence test and 'Max Iterations
\* Reached' exactly when none did.
C10_StatusFaithful ==
    (pc = "done" /\ result.kind = "pair")
        => /\ (status = "Success") <=> SomeRowConverged
           /\ (status = "Max Iterations Reached") <=> ~SomeRowConverged

====
